---- MODULE Spec2Model ----
(***************************************************************************)
(* Model of src/app.py: the video generation service.                      *)
(*                                                                         *)
(* One HTTP request to /api/video is followed from generate_video through  *)
(* process_video (work directory, narration, transcript, one fetch per     *)
(* URL, concatenation, mux), send_file and the cleanup of the registry     *)
(* temp_paths.  The filesystem is the set of paths that exist; a path is a *)
(* tuple of components, so that a directory contains the paths it prefixes.*)
(* The external engines (gTTS, whisper, pytube, ffmpeg, tempfile, Flask)   *)
(* are the environment: each call either succeeds or raises, chosen        *)
(* nondeterministically, with the effects on the filesystem it can have.   *)
(*                                                                         *)
(* The pure helpers (clean_text, create_subtitle_filter) and the fetcher   *)
(* (download_youtube_video) are also exercised on their own, on bounded    *)
(* inputs held in the variables arg and ret.                               *)
(***************************************************************************)
EXTENDS Integers, Sequences, FiniteSets, TLC

VARIABLES
    request,        \* the HTTP request: [body, prompt, links]
    pc,             \* position of the request handler
    disk,           \* set of paths that exist on the filesystem
    nextTmp,        \* number of tempfile.mkdtemp() directories handed out
    job,            \* process_video: its arguments [story_text, youtube_urls]
    temp_paths,     \* process_video: registry of paths to clean up
    work_dir,       \* process_video: working directory
    voice_path,     \* process_video: narration file
    result,         \* process_video: whisper transcript (its "segments")
    video_segments, \* process_video: fetched files, in fetch order
    input_video,    \* process_video: video input of the mux
    pv,             \* what process_video returned or raised
    response,       \* what generate_video returned
    delivered,      \* the WSGI layer has streamed the response body
    log,            \* history: the external calls made, in order
    rmFail,         \* paths whose removal raises (OSError)
    arg,            \* input of a helper exercised on its own
    ret             \* its return value

vars == <<request, pc, disk, nextTmp, job, temp_paths, work_dir, voice_path, result,
          video_segments, input_video, pv, response, delivered, log,
          rmFail, arg, ret>>

None == "None"

(***************************************************************************)
(* Bounds of the model.                                                    *)
(***************************************************************************)
MaxLinkCount == 11      \* longest link list of a request
MaxShortLinks == 2      \* up to this length every list over Urls is tried
MaxStreams == 3         \* most streams a video offers
MaxTextLen == 3         \* longest text given to clean_text
MaxSegments == 2        \* most segments of a transcript
MaxWords == 2           \* most words of a segment
MaxRegistry == 3        \* longest registry given to clean_temp_files

Urls == {"urlA", "urlB"}

(***************************************************************************)
(* Limit of generate_video: "if len(youtube_links) > 10".                  *)
(***************************************************************************)
MaxVideos == 10


(***************************************************************************)
(* The filesystem.  tempfile.mkdtemp() returns a fresh directory; the k-th *)
(* one is <<"tmp", k>>.  os.path.join(dir, name) appends a component.      *)
(***************************************************************************)
mkdtemp(k) == <<"tmp", k>>

join(dir, name) == Append(dir, name)

Under(p, dir) == Len(p) > Len(dir) /\ SubSeq(p, 1, Len(dir)) = dir

isdir(path, fs) == path \in fs /\ Len(path) = 2

exists(path, fs) == path \in fs

rmtree(path, fs) == {p \in fs : p # path /\ ~Under(p, path)}

remove(path, fs) == fs \ {path}

(***************************************************************************)
(* Removals that raise.  faulty is the set of paths whose own removal      *)
(* raises OSError.  os.remove(path) raises when path is faulty.            *)
(* shutil.rmtree(path) raises when path or something inside it is faulty;  *)
(* it has then removed some of the other entries inside path, in the order *)
(* os.scandir gave them, which is not determined: every subset is possible.*)
(***************************************************************************)
rmtree_raises(path, fs, faulty) ==
    path \in faulty \/ \E p \in fs : Under(p, path) /\ p \in faulty

rmtree_outcomes(path, fs, faulty) ==
    IF rmtree_raises(path, fs, faulty)
    THEN {fs \ gone : gone \in SUBSET {p \in fs : Under(p, path) /\ p \notin faulty}}
    ELSE {rmtree(path, fs)}

\* lines 19-22 raise for this path
removal_raises(path, fs, faulty) ==
    IF isdir(path, fs) THEN rmtree_raises(path, fs, faulty)
    ELSE exists(path, fs) /\ path \in faulty

\* one turn of the loop of clean_temp_files: the filesystems it can leave
clean_one(path, fs, faulty) ==
    IF isdir(path, fs) THEN rmtree_outcomes(path, fs, faulty)
    ELSE IF exists(path, fs)
         THEN (IF path \in faulty THEN {fs} ELSE {remove(path, fs)})
    ELSE {fs}

(***************************************************************************)
(* clean_temp_files(temp_paths): the filesystems the loop can leave.  A    *)
(* removal that raises is caught (lines 23-24) and the loop goes on, so no *)
(* exception leaves the function.                                          *)
(***************************************************************************)
clean_temp_files_files_only(paths, fs, faulty) ==
    {fs \ {paths[i] : i \in {j \in 1..Len(paths) :
                               paths[j] \notin faulty /\ ~isdir(paths[j], fs)}}}

\* the try/except is around the loop: the first removal that raises ends it
RECURSIVE clean_temp_files_stop_at_error(_, _, _)
clean_temp_files_stop_at_error(paths, fs, faulty) ==
    IF paths = <<>> THEN {fs}
    ELSE IF removal_raises(Head(paths), fs, faulty)
         THEN clean_one(Head(paths), fs, faulty)
    ELSE UNION {clean_temp_files_stop_at_error(Tail(paths), f, faulty) :
                   f \in clean_one(Head(paths), fs, faulty)}

\* os.rmdir instead of shutil.rmtree: a directory that is not empty stays
RECURSIVE clean_temp_files_rmdir(_, _, _)
clean_temp_files_rmdir(paths, fs, faulty) ==
    IF paths = <<>> THEN {fs}
    ELSE LET path == Head(paths)
             after == IF isdir(path, fs) /\ (\E p \in fs : Under(p, path)) THEN fs
                      ELSE IF path \in faulty THEN fs
                      ELSE fs \ {path}
         IN  clean_temp_files_rmdir(Tail(paths), after, faulty)

RECURSIVE clean_temp_files(_, _, _)
clean_temp_files(paths, fs, faulty) ==
    IF paths = <<>> THEN {fs}
    ELSE UNION {clean_temp_files(Tail(paths), f, faulty) :
                   f \in clean_one(Head(paths), fs, faulty)}

\* "except Exception as e: print(...)": nothing is raised to the caller
clean_temp_files_raises(paths, fs, faulty) == FALSE

ErrRemove == "Permission denied"

(***************************************************************************)
(* Text.  A Python str is a sequence of one-character strings; Str turns   *)
(* it into the string it denotes.                                          *)
(***************************************************************************)
Lower == {"a","b","c","d","e","f","g","h","i","j","k","l","m",
          "n","o","p","q","r","s","t","u","v","w","x","y","z"}

Upper == {"A","B","C","D","E","F","G","H","I","J","K","L","M",
          "N","O","P","Q","R","S","T","U","V","W","X","Y","Z"}

Digit == {"0","1","2","3","4","5","6","7","8","9"}

\* the class of the pattern r"[^a-zA-Z0-9,.?! ]", without the negation
AllowSet == Lower \cup Upper \cup Digit \cup {",", ".", "?", "!", " "}

RECURSIVE Str(_)
Str(chars) == IF chars = <<>> THEN "" ELSE Head(chars) \o Str(Tail(chars))

Allowed(c) == c \in AllowSet

\* re.sub(pattern, "", text, count=1): only the first match is dropped
clean_text_first_only(text) ==
    LET bad == {i \in 1..Len(text) : ~Allowed(text[i])}
    IN  IF bad = {} THEN text
        ELSE LET i == CHOOSE j \in bad : \A m \in bad : j <= m
             IN  SubSeq(text, 1, i - 1) \o SubSeq(text, i + 1, Len(text))

\* clean_text(text): re.sub(r"[^a-zA-Z0-9,.?! ]", "", text)
clean_text(text) == SelectSeq(text, Allowed)

(***************************************************************************)
(* create_subtitle_filter(segments).  A segment is a record that may have  *)
(* a "words" field; a word is [word, start, end].                          *)
(***************************************************************************)
SegmentWords(segment) ==
    IF "words" \in DOMAIN segment THEN segment.words ELSE <<>>

filter_text(word_info) ==
    LET word == Str(clean_text(word_info.word))
    IN  "drawtext=font='Arial':text='" \o word \o "':"
        \o "fontsize=60:fontcolor=white:bordercolor=black:borderw=2:"
        \o "x=(w-text_w)/2:y=(h-text_h)/2:"
        \o "enable='between(t," \o ToString(word_info.start) \o ","
        \o ToString(word_info.end) \o ")'"

RECURSIVE word_filters(_)
word_filters(words) ==
    IF words = <<>> THEN <<>>
    ELSE <<filter_text(Head(words))>> \o word_filters(Tail(words))

\* a filter is appended only when the cleaned word is not empty
RECURSIVE subtitle_filters_skip_empty(_)
subtitle_filters_skip_empty(segments) ==
    IF segments = <<>> THEN <<>>
    ELSE word_filters(SelectSeq(SegmentWords(Head(segments)),
                                LAMBDA w : clean_text(w.word) # <<>>))
         \o subtitle_filters_skip_empty(Tail(segments))

\* the list "filters" when the loops of create_subtitle_filter are over
RECURSIVE subtitle_filters(_)
subtitle_filters(segments) ==
    IF segments = <<>> THEN <<>>
    ELSE word_filters(SegmentWords(Head(segments)))
         \o subtitle_filters(Tail(segments))

RECURSIVE JoinStr(_, _)
JoinStr(sep, strs) ==
    IF strs = <<>> THEN ""
    ELSE IF Len(strs) = 1 THEN Head(strs)
    ELSE Head(strs) \o sep \o JoinStr(sep, Tail(strs))

create_subtitle_filter(segments) == JoinStr(",", subtitle_filters(segments))

(***************************************************************************)
(* download_youtube_video(url).  A stream is [res, progressive, ext]; res  *)
(* is the number of the resolution string ("720p" is 720).  What pytube    *)
(* does is given by env: yt_ok (YouTube(url) and its stream list load),    *)
(* streams (the streams of the video) and download ("ok", or a failure     *)
(* that leaves nothing or a partial file in the scratch directory).        *)
(***************************************************************************)
Resolutions == {360, 480, 720, 1080}

Ceiling == 720

StreamKinds == [res : Resolutions, progressive : BOOLEAN, ext : {"mp4", "webm"}]

StreamSets == {s \in SUBSET StreamKinds : Cardinality(s) <= MaxStreams}

DownloadOutcomes == {"ok", "fail", "partial"}

\* what .first() gives on an empty query (Python None) and "no path"
NoStream == [res |-> 0, progressive |-> FALSE, ext |-> "none"]

NoPath == <<>>

\* streams.filter(progressive=True, file_extension='mp4')
ProgressiveMp4(streams) == {s \in streams : s.progressive /\ s.ext = "mp4"}

\* filter(..., res='720p').first() or filter(...).order_by('resolution').desc().first()
select_stream(streams) ==
    LET exact == {s \in ProgressiveMp4(streams) : s.res = Ceiling}
        any   == ProgressiveMp4(streams)
    IN  IF exact # {} THEN CHOOSE s \in exact : TRUE
        ELSE IF any # {}
             THEN CHOOSE s \in any : \A t \in any : t.res <= s.res
        ELSE NoStream

ErrYouTube == "video unavailable"
ErrNoStream == "No suitable video stream found"
ErrDownload == "download interrupted"

DownloadWrap(cause) == "YouTube download failed: " \o cause

\* the result of the call that makes the k-th mkdtemp directory:
\* ok, the returned (video_path, temp_dir), the paths it created, the
\* stream it chose and the message of the exception it raised
download_youtube_video(url, k, env) ==
    LET stream   == select_stream(env.streams)
        temp_dir == mkdtemp(k)
        file     == join(temp_dir, url)
        failed(cause, made, st) ==
            [ok |-> FALSE, video_path |-> NoPath, temp_dir |-> NoPath,
             created |-> made, stream |-> st, error |-> DownloadWrap(cause)]
    IN  IF ~env.yt_ok THEN failed(ErrYouTube, {}, NoStream)
        ELSE IF stream = NoStream THEN failed(ErrNoStream, {}, NoStream)
        ELSE IF env.download = "fail" THEN failed(ErrDownload, {temp_dir}, stream)
        ELSE IF env.download = "partial"
             THEN failed(ErrDownload, {temp_dir, file}, stream)
        ELSE [ok |-> TRUE, video_path |-> file, temp_dir |-> temp_dir,
              created |-> {temp_dir, file}, stream |-> stream, error |-> ""]

(***************************************************************************)
(* The requests.  body is what request.get_json() gives: a JSON object,    *)
(* None ("absent": the body is null or there is none) or a JSON value of   *)
(* another type, named by its Python type.  keys are the keys the object   *)
(* has.                                                                    *)
(***************************************************************************)
RECURSIVE Alternate(_, _)
Alternate(n, u) ==
    IF n = 0 THEN <<>>
    ELSE <<u>> \o Alternate(n - 1, CHOOSE v \in Urls : v # u)

RECURSIVE SeqsUpTo(_, _)
SeqsUpTo(S, n) ==
    IF n = 0 THEN {<<>>}
    ELSE SeqsUpTo(S, n - 1) \cup
         {Append(q, x) : q \in {r \in SeqsUpTo(S, n - 1) : Len(r) = n - 1}, x \in S}

LinkLists ==
    SeqsUpTo(Urls, MaxShortLinks)
    \cup {Alternate(n, u) : n \in 0..MaxLinkCount, u \in Urls}

Prompts == {"", "Test"}

\* a key that is absent carries no value
WellFormed(r) ==
    /\ ("prompt" \notin r.keys => r.prompt = "")
    /\ ("links" \notin r.keys => r.links = <<>>)

\* the Python types of the JSON values that are neither object nor null
NonObjectBodies == {"list", "str", "int", "float", "bool"}

Requests ==
    {r \in [body : {"object"}, keys : SUBSET {"prompt", "links"},
            prompt : Prompts, links : LinkLists] : WellFormed(r)}
    \cup {[body |-> b, keys |-> {}, prompt |-> "", links |-> <<>>] :
            b \in {"absent"} \cup NonObjectBodies}

\* no HTTP request: a function is called on its own
NoRequest == [body |-> "none", keys |-> {}, prompt |-> "", links |-> <<>>]

\* "not story": data.get('prompt') is None or ''
NotStory(r) == "prompt" \notin r.keys \/ r.prompt = ""

\* "not youtube_links": data.get('links', []) is []
NotLinks(r) == "links" \notin r.keys \/ r.links = <<>>

(***************************************************************************)
(* Values returned by generate_video and process_video.                    *)
(***************************************************************************)
NoResponse == [kind |-> "none", status |-> 0, error |-> "", file |-> NoPath]

ErrorResponseAlways500(msg, code) ==
    [kind |-> "error", status |-> 500, error |-> msg, file |-> NoPath]

ErrorResponse(msg, code) ==
    [kind |-> "error", status |-> code, error |-> msg, file |-> NoPath]

FileResponse(path) ==
    [kind |-> "file", status |-> 200, error |-> "", file |-> path]

NoReturn == [state |-> "none", output_path |-> NoPath, paths |-> <<>>, error |-> ""]

ReturnedWorkDirOnly(path, paths) ==
    [state |-> "returned", output_path |-> path, paths |-> <<paths[1]>>, error |-> ""]

Returned(path, paths) ==
    [state |-> "returned", output_path |-> path, paths |-> paths, error |-> ""]

Raised(msg) ==
    [state |-> "raised", output_path |-> NoPath, paths |-> <<>>, error |-> msg]

ProcessingWrapNoCause(cause) == "Video processing failed"

ProcessingWrap(cause) == "Video processing failed: " \o cause

\* an entry of the history of calls
Call(op, a, ok, err) == [op |-> op, arg |-> a, ok |-> ok, err |-> err]

(***************************************************************************)
(* What the engines can answer.                                            *)
(***************************************************************************)
TranscriptSamples ==
    { <<>>,
      <<[words |-> <<[word |-> <<" ", "H", "i", "'">>, start |-> 0, end |-> 1]>>]>> }

FetchEnvs ==
    [yt_ok : BOOLEAN, streams : {s \in StreamSets : Cardinality(s) <= 1},
     download : DownloadOutcomes]

\* type(data).__name__ for the value request.get_json() gave
TypeName(body) == IF body = "absent" THEN "NoneType" ELSE body

\* str(AttributeError) of "data.get" on a value that is no dict
ErrNoGet(body) == "'" \o TypeName(body) \o "' object has no attribute 'get'"
ErrMissing == "Missing prompt or video links"
ErrTooMany == "Maximum 10 videos allowed"
ErrMkdtemp == "No space left on device"
ErrSynth == "Failed to connect to the TTS API"
ErrTranscribe == "Failed to load audio"
ErrIndex == "list index out of range"
\* the name of a path: mkdtemp gives /tmp/tmp_k for its k-th directory
os_path(p) ==
    "/tmp/tmp_" \o ToString(p[2]) \o (IF Len(p) = 3 THEN "/" \o p[3] ELSE "")

\* repr of a str that has no quote in it, and of one that has ' and no "
repr(str) == "'" \o str \o "'"

repr_quoting(str) == IF str = "" THEN repr(str) ELSE "\"" \o str \o "\""

\* repr of the argv of the concatenation, lines 109-112
ConcatArgv(concat_list, combined_video) ==
    "[" \o JoinStr(", ", <<repr("ffmpeg"), repr("-f"), repr("concat"),
                           repr("-safe"), repr("0"),
                           repr("-i"), repr(os_path(concat_list)),
                           repr("-c"), repr("copy"),
                           repr(os_path(combined_video))>>) \o "]"

\* repr of the argv of the mux, lines 124-137; the filter has ' around the
\* font, the word and the enable expression unless it is empty
MuxArgv(video, audio, subtitle_filter, output_path) ==
    "[" \o JoinStr(", ", <<repr("ffmpeg"), repr("-y"),
                           repr("-i"), repr(os_path(video)),
                           repr("-i"), repr(os_path(audio)),
                           repr("-vf"), repr_quoting(subtitle_filter),
                           repr("-map"), repr("0:v"),
                           repr("-map"), repr("1:a"),
                           repr("-c:v"), repr("libx264"),
                           repr("-preset"), repr("fast"),
                           repr("-crf"), repr("23"),
                           repr("-c:a"), repr("aac"),
                           repr("-shortest"),
                           repr(os_path(output_path))>>) \o "]"

\* str(CalledProcessError) of subprocess.run(argv, check=True), exit status 1
ErrFfmpeg(argv) == "Command '" \o argv \o "' returned non-zero exit status 1."
ErrSend == "send_file failed"

NoJob == [story_text |-> "", youtube_urls |-> <<>>]

(***************************************************************************)
(* Initial states: a request has arrived and nothing has been done.        *)
(***************************************************************************)
Idle ==
    /\ disk = {}
    /\ nextTmp = 0
    /\ job = NoJob
    /\ temp_paths = <<>>
    /\ work_dir = NoPath
    /\ voice_path = NoPath
    /\ result = <<>>
    /\ video_segments = <<>>
    /\ input_video = NoPath
    /\ pv = NoReturn
    /\ response = NoResponse
    /\ delivered = FALSE
    /\ log = <<>>
    /\ rmFail = {}

Init ==
    /\ request \in Requests
    /\ pc = "request"
    /\ Idle
    /\ arg = None
    /\ ret = None

(***************************************************************************)
(* process_video, lines 141-143, and generate_video, lines 175-176: the    *)
(* except clause cleans the registry and raises the wrapped error, which   *)
(* generate_video turns into a 500.  fs and tmp are the filesystem and the *)
(* mkdtemp count the failing call left, calls what it adds to the history. *)
(* A caller of process_video other than generate_video (request is         *)
(* NoRequest) gets the exception itself.  voice_path is left to the step:  *)
(* line 82 binds it before the synthesis is called.                        *)
(***************************************************************************)
\* the variant that logs the failure and tries the step again
ProcessingFailsRetry(calls, cause, fs, tmp) ==
    /\ disk' = fs
    /\ nextTmp' = tmp
    /\ log' = log \o calls
    /\ UNCHANGED <<request, pc, job, temp_paths, work_dir, result,
                   video_segments, input_video, pv, response, delivered, rmFail,
                   arg, ret>>

ProcessingFails(calls, cause, fs, tmp) ==
    LET raised == IF clean_temp_files_raises(temp_paths, fs, rmFail)
                  THEN ErrRemove ELSE ProcessingWrap(cause)
    IN  /\ disk' \in clean_temp_files(temp_paths, fs, rmFail)
        /\ nextTmp' = tmp
        /\ pv' = Raised(raised)
        /\ response' = IF request = NoRequest THEN response
                       ELSE ErrorResponse(raised, 500)
        /\ log' = log \o calls \o <<Call("cleanup", temp_paths, TRUE, "")>>
        /\ pc' = IF request = NoRequest THEN "raised" ELSE "responded"
        /\ UNCHANGED <<request, job, temp_paths, work_dir, result,
                       video_segments, input_video, delivered, rmFail, arg, ret>>

(***************************************************************************)
(* generate_video, lines 148-162: read the body, validate, call            *)
(* process_video.                                                          *)
(***************************************************************************)
Reject(msg, code) ==
    /\ response' = ErrorResponse(msg, code)
    /\ pc' = "responded"
    /\ UNCHANGED <<request, disk, nextTmp, job, temp_paths, work_dir, voice_path,
                   result, video_segments, input_video, pv, delivered, log,
                   rmFail, arg, ret>>

TooManyFromTen(links) == Len(links) >= MaxVideos

\* "len(youtube_links) > 10"
TooMany(links) == Len(links) > MaxVideos

Validate ==
    /\ pc = "request"
    /\ IF request.body # "object" THEN Reject(ErrNoGet(request.body), 500)
       ELSE IF NotStory(request) \/ NotLinks(request) THEN Reject(ErrMissing, 400)
       ELSE IF TooMany(request.links) THEN Reject(ErrTooMany, 400)
       ELSE /\ job' = [story_text |-> request.prompt, youtube_urls |-> request.links]
            /\ pc' = "process_video"
            /\ UNCHANGED <<request, disk, nextTmp, temp_paths, work_dir, voice_path,
                           result, video_segments, input_video, pv, response,
                           delivered, log, rmFail, arg, ret>>

(***************************************************************************)
(* process_video, lines 73-78: the registry and the working directory.     *)
(***************************************************************************)
MakeWorkDir ==
    /\ pc = "process_video"
    /\ \/ /\ work_dir' = mkdtemp(nextTmp)
          /\ disk' = disk \cup {mkdtemp(nextTmp)}
          /\ nextTmp' = nextTmp + 1
          /\ temp_paths' = <<mkdtemp(nextTmp)>>
          /\ log' = Append(log, Call("mkdtemp", mkdtemp(nextTmp), TRUE, ""))
          /\ pc' = "synth"
          /\ UNCHANGED <<request, job, voice_path, result, video_segments,
                         input_video, pv, response, delivered, rmFail, arg, ret>>
       \/ /\ ProcessingFails(<<Call("mkdtemp", NoPath, FALSE, ErrMkdtemp)>>,
                             ErrMkdtemp, disk, nextTmp)
          /\ UNCHANGED voice_path

(***************************************************************************)
(* process_video, lines 80-85: gTTS writes the narration.  voice_path is   *)
(* bound (line 82) whether the save succeeds or raises; a failing save may *)
(* leave a partial file behind.                                            *)
(***************************************************************************)
Synthesize ==
    /\ pc = "synth"
    /\ LET path == join(work_dir, "narration.mp3")
       IN  \/ /\ job.story_text # ""     \* gTTS: assert text, "No text to speak"
              /\ voice_path' = path
              /\ disk' = disk \cup {path}
              /\ temp_paths' = Append(temp_paths, path)
              /\ log' = Append(log, Call("synth", job.story_text, TRUE, ""))
              /\ pc' = "transcribe"
              /\ UNCHANGED <<request, nextTmp, job, work_dir, result, video_segments,
                             input_video, pv, response, delivered, rmFail, arg, ret>>
           \/ /\ voice_path' = path            \* line 82, before gTTS is called
              /\ \E left \in {{}, {path}} :
                   ProcessingFails(<<Call("synth", job.story_text, FALSE, ErrSynth)>>,
                                   ErrSynth, disk \cup left, nextTmp)

(***************************************************************************)
(* process_video, lines 87-90: whisper transcribes the narration.          *)
(***************************************************************************)
Transcribe ==
    /\ pc = "transcribe"
    /\ \/ /\ result' \in TranscriptSamples
          /\ log' = Append(log, Call("transcribe", voice_path, TRUE, ""))
          /\ pc' = IF job.youtube_urls = <<>> THEN "combine" ELSE "fetch"
          /\ UNCHANGED <<request, disk, nextTmp, job, temp_paths, work_dir,
                         voice_path, video_segments, input_video, pv, response,
                         delivered, rmFail, arg, ret>>
       \/ /\ ProcessingFails(<<Call("transcribe", voice_path, FALSE, ErrTranscribe)>>,
                             ErrTranscribe, disk, nextTmp)
          /\ UNCHANGED voice_path

(***************************************************************************)
(* process_video, lines 95-98: one turn of the loop over youtube_urls.     *)
(* The call is registered only after it has returned.                      *)
(***************************************************************************)
AfterFetchOne(n, urls) == "combine"

\* "for url in youtube_urls": the loop ends after the last URL
AfterFetch(n, urls) == IF n = Len(urls) THEN "combine" ELSE "fetch"

Fetch ==
    /\ pc = "fetch"
    /\ Len(video_segments) < Len(job.youtube_urls)
    /\ \E env \in FetchEnvs :
         LET url == job.youtube_urls[Len(video_segments) + 1]
             r   == download_youtube_video(url, nextTmp, env)
             tmp == IF r.created = {} THEN nextTmp ELSE nextTmp + 1
         IN  IF r.ok
             THEN /\ disk' = disk \cup r.created
                  /\ nextTmp' = tmp
                  /\ video_segments' = Append(video_segments, r.video_path)
                  /\ temp_paths' = temp_paths \o <<r.video_path, r.temp_dir>>
                  /\ log' = Append(log, Call("fetch", url, TRUE, ""))
                  /\ pc' = AfterFetch(Len(video_segments) + 1, job.youtube_urls)
                  /\ UNCHANGED <<request, job, work_dir, voice_path, result,
                                 input_video, pv, response, delivered, rmFail,
                                 arg, ret>>
             ELSE /\ ProcessingFails(<<Call("fetch", url, FALSE, r.error)>>,
                                     r.error, disk \cup r.created, tmp)
                  /\ UNCHANGED voice_path

(***************************************************************************)
(* process_video, lines 100-117: concatenate when there are several        *)
(* videos.  ffmpeg reads the list written to concat.txt; a failing run may *)
(* leave a partial combined.mp4.                                           *)
(***************************************************************************)
ConcatInputsReversed(videos) == [i \in 1..Len(videos) |-> videos[Len(videos) + 1 - i]]

\* the files named by the lines of concat.txt, in the order written
ConcatInputs(videos) == videos

\* input_video after the if/else of lines 101-117
ChooseInput(videos, combined) == IF Len(videos) > 1 THEN combined ELSE videos[1]

Combine ==
    /\ pc = "combine"
    /\ LET concat_list    == join(work_dir, "concat.txt")
           combined_video == join(work_dir, "combined.mp4")
           argv           == ConcatArgv(concat_list, combined_video)
       IN  IF Len(video_segments) > 1
           THEN \/ /\ disk' = disk \cup {concat_list, combined_video}
                   /\ input_video' = ChooseInput(video_segments, combined_video)
                   /\ temp_paths' = temp_paths \o <<concat_list, combined_video>>
                   /\ log' = Append(log, Call("concat", ConcatInputs(video_segments),
                                              TRUE, ""))
                   /\ pc' = "mux"
                   /\ UNCHANGED <<request, nextTmp, job, work_dir, voice_path, result,
                                  video_segments, pv, response, delivered, rmFail,
                                  arg, ret>>
                \/ /\ \E left \in {{}, {combined_video}} :
                        ProcessingFails(<<Call("concat", ConcatInputs(video_segments),
                                               FALSE, ErrFfmpeg(argv))>>,
                                        ErrFfmpeg(argv),
                                        disk \cup {concat_list} \cup left, nextTmp)
                   /\ UNCHANGED voice_path
           ELSE IF Len(video_segments) = 1
           THEN /\ input_video' = ChooseInput(video_segments, combined_video)
                /\ pc' = "mux"
                /\ UNCHANGED <<request, disk, nextTmp, job, temp_paths, work_dir,
                               voice_path, result, video_segments, pv, response,
                               delivered, log, rmFail, arg, ret>>
           ELSE /\ ProcessingFails(<<>>, ErrIndex, disk, nextTmp)
                /\ UNCHANGED voice_path

(***************************************************************************)
(* process_video, lines 119-139: the mux with the burnt-in subtitles, and  *)
(* the return of (output_path, temp_paths).                                *)
(***************************************************************************)
Mux ==
    /\ pc = "mux"
    /\ LET output_path     == join(work_dir, "final_output.mp4")
           subtitle_filter == create_subtitle_filter(result)
           argv            == MuxArgv(input_video, voice_path, subtitle_filter,
                                      output_path)
           call(ok, err)   == Call("mux", [video |-> input_video, audio |-> voice_path,
                                           vf |-> subtitle_filter, out |-> output_path],
                                   ok, err)
       IN  \/ /\ disk' = disk \cup {output_path}
              /\ pv' = Returned(output_path, temp_paths)
              /\ log' = Append(log, call(TRUE, ""))
              /\ pc' = "send"
              /\ UNCHANGED <<request, nextTmp, job, temp_paths, work_dir, voice_path,
                             result, video_segments, input_video, response,
                             delivered, rmFail, arg, ret>>
           \/ /\ \E left \in {{}, {output_path}} :
                   ProcessingFails(<<call(FALSE, ErrFfmpeg(argv))>>, ErrFfmpeg(argv),
                                   disk \cup left, nextTmp)
              /\ UNCHANGED voice_path

(***************************************************************************)
(* generate_video, lines 165-176: send_file builds the response for the    *)
(* file, or raises; the finally clause cleans the registry either way,     *)
(* before generate_video returns.                                          *)
(***************************************************************************)
SendFile ==
    /\ pc = "send"
    /\ \E ok \in BOOLEAN :
         /\ response' = IF clean_temp_files_raises(pv.paths, disk, rmFail)
                        THEN ErrorResponse(ErrRemove, 500)
                        ELSE IF ok THEN FileResponse(pv.output_path)
                        ELSE ErrorResponse(ErrSend, 500)
         /\ log' = log \o <<Call("send_file", pv.output_path, ok,
                                 IF ok THEN "" ELSE ErrSend),
                            Call("cleanup", pv.paths, TRUE, "")>>
    /\ disk' \in clean_temp_files(pv.paths, disk, rmFail)
    /\ pc' = "responded"
    /\ UNCHANGED <<request, nextTmp, job, temp_paths, work_dir, voice_path, result,
                   video_segments, input_video, pv, delivered, rmFail, arg, ret>>

(***************************************************************************)
(* After generate_video has returned, the WSGI layer sends the response;   *)
(* for a file response it streams the body of the file.                    *)
(***************************************************************************)
Deliver ==
    /\ pc = "responded"
    /\ ~delivered
    /\ delivered' = TRUE
    /\ UNCHANGED <<request, pc, disk, nextTmp, job, temp_paths, work_dir,
                   voice_path, result, video_segments, input_video, pv, response,
                   log, rmFail, arg, ret>>

Next ==
    \/ Validate
    \/ MakeWorkDir
    \/ Synthesize
    \/ Transcribe
    \/ Fetch
    \/ Combine
    \/ Mux
    \/ SendFile
    \/ Deliver

Spec == Init /\ [][Next]_vars

(***************************************************************************)
(* The blocking calls: tts.save (line 84), model.transcribe (line 90),     *)
(* YouTube(url) and stream.download (lines 29-45) and the two              *)
(* subprocess.run (lines 109-112 and 124-137) are given no timeout, so a   *)
(* call that never returns keeps the handler inside it: no step of the     *)
(* code leaves that state.  What the code did before the call is done:     *)
(* voice_path is bound (line 82) when tts.save blocks, the scratch         *)
(* directory of line 44 exists when stream.download blocks                 *)
(* and concat.txt of lines 104-106 when the concatenation blocks; the      *)
(* blocked call may have begun its output file.  None of this is in the    *)
(* registry yet.                                                           *)
(***************************************************************************)
ToolHangs ==
    /\ pc' = "waiting"
    /\ \/ /\ pc = "synth"
          /\ voice_path' = join(work_dir, "narration.mp3")      \* line 82
          /\ \E left \in {{}, {join(work_dir, "narration.mp3")}} :
               disk' = disk \cup left
          /\ UNCHANGED nextTmp
       \/ /\ pc = "transcribe"
          /\ UNCHANGED <<disk, nextTmp, voice_path>>
       \/ /\ pc = "fetch"
          /\ UNCHANGED voice_path
          /\ \/ UNCHANGED <<disk, nextTmp>>          \* in YouTube(url), yt.streams
             \/ LET temp_dir == mkdtemp(nextTmp)     \* in stream.download
                    url      == job.youtube_urls[Len(video_segments) + 1]
                IN  /\ \E left \in {{}, {join(temp_dir, url)}} :
                         disk' = disk \cup {temp_dir} \cup left
                    /\ nextTmp' = nextTmp + 1
       \/ /\ pc = "combine"
          /\ Len(video_segments) > 1
          /\ \E left \in {{}, {join(work_dir, "combined.mp4")}} :
               disk' = disk \cup {join(work_dir, "concat.txt")} \cup left
          /\ UNCHANGED <<nextTmp, voice_path>>
       \/ /\ pc = "mux"
          /\ \E left \in {{}, {join(work_dir, "final_output.mp4")}} :
               disk' = disk \cup left
          /\ UNCHANGED <<nextTmp, voice_path>>
    /\ UNCHANGED <<request, job, temp_paths, work_dir, result, video_segments,
                   input_video, pv, response, delivered, log, rmFail, arg, ret>>

NextHang ==
    \/ Next
    \/ ToolHangs

SpecHang == Init /\ [][NextHang]_vars

(***************************************************************************)
(* Requests served on a filesystem where the removal of one path raises.   *)
(***************************************************************************)
FaultCandidates ==
    { mkdtemp(0), join(mkdtemp(0), "narration.mp3"),
      join(mkdtemp(0), "final_output.mp4"),
      mkdtemp(1), join(mkdtemp(1), "urlA"), mkdtemp(2) }

FaultSets == {{}} \cup {{p} : p \in FaultCandidates}

FaultRequests == {r \in Requests : r.body = "object" /\ Len(r.links) <= 3}

InitFaulty ==
    /\ request \in FaultRequests
    /\ pc = "request"
    /\ rmFail \in FaultSets
    /\ disk = {}
    /\ nextTmp = 0
    /\ job = NoJob
    /\ temp_paths = <<>>
    /\ work_dir = NoPath
    /\ voice_path = NoPath
    /\ result = <<>>
    /\ video_segments = <<>>
    /\ input_video = NoPath
    /\ pv = NoReturn
    /\ response = NoResponse
    /\ delivered = FALSE
    /\ log = <<>>
    /\ arg = None
    /\ ret = None

SpecFaulty == InitFaulty /\ [][Next]_vars

(***************************************************************************)
(* process_video called by another caller than generate_video, with any    *)
(* arguments: nothing has validated them.                                  *)
(***************************************************************************)
Jobs == [story_text : Prompts, youtube_urls : LinkLists]

InitDirect ==
    /\ request = NoRequest
    /\ pc = "process_video"
    /\ job \in Jobs
    /\ disk = {}
    /\ nextTmp = 0
    /\ temp_paths = <<>>
    /\ work_dir = NoPath
    /\ voice_path = NoPath
    /\ result = <<>>
    /\ video_segments = <<>>
    /\ input_video = NoPath
    /\ pv = NoReturn
    /\ response = NoResponse
    /\ delivered = FALSE
    /\ log = <<>>
    /\ rmFail = {}
    /\ arg = None
    /\ ret = None

NextDirect ==
    \/ MakeWorkDir
    \/ Synthesize
    \/ Transcribe
    \/ Fetch
    \/ Combine
    \/ Mux

SpecDirect == InitDirect /\ [][NextDirect]_vars

(***************************************************************************)
(* The helpers on their own.  arg is the input, ret what was returned.     *)
(***************************************************************************)
\* characters inside and outside the allow-set
Alphabet == {"a", "Z", "7", "!", " ", ",", "'", ":", "\\", "-"}

Texts == SeqsUpTo(Alphabet, MaxTextLen)

InitCleanText ==
    /\ request = NoRequest
    /\ pc = "clean_text"
    /\ Idle
    /\ arg \in Texts
    /\ ret = <<>>

\* clean_text applied to arg, then to its own result
CleanText ==
    /\ pc = "clean_text"
    /\ Len(ret) < 2
    /\ ret' = Append(ret, clean_text(IF ret = <<>> THEN arg ELSE ret[Len(ret)]))
    /\ UNCHANGED <<request, pc, disk, nextTmp, job, temp_paths, work_dir,
                   voice_path, result, video_segments, input_video, pv, response,
                   delivered, log, rmFail, arg>>

SpecCleanText == InitCleanText /\ [][CleanText]_vars

WordSamples ==
    { [word |-> <<" ", "H", "i", ",">>, start |-> 0, end |-> 1],
      [word |-> <<"'", ":">>, start |-> 1, end |-> 2],
      [word |-> <<"o", "'", "k">>, start |-> 2, end |-> 2] }

SegmentSamples ==
    {[words |-> w] : w \in SeqsUpTo(WordSamples, MaxWords)} \cup {[text |-> ""]}

Transcripts == SeqsUpTo(SegmentSamples, MaxSegments)

InitSubtitle ==
    /\ request = NoRequest
    /\ pc = "create_subtitle_filter"
    /\ Idle
    /\ arg \in Transcripts
    /\ ret = None

CreateSubtitleFilter ==
    /\ pc = "create_subtitle_filter"
    /\ ret' = [filters |-> subtitle_filters(arg), value |-> create_subtitle_filter(arg)]
    /\ pc' = "returned"
    /\ UNCHANGED <<request, disk, nextTmp, job, temp_paths, work_dir, voice_path,
                   result, video_segments, input_video, pv, response, delivered,
                   log, rmFail, arg>>

SpecSubtitle == InitSubtitle /\ [][CreateSubtitleFilter]_vars

InitFetch ==
    /\ request = NoRequest
    /\ pc = "download_youtube_video"
    /\ Idle
    /\ arg \in [url : Urls,
                env : [yt_ok : BOOLEAN, streams : StreamSets, download : DownloadOutcomes]]
    /\ ret = None

DownloadYoutubeVideo ==
    /\ pc = "download_youtube_video"
    /\ LET r == download_youtube_video(arg.url, nextTmp, arg.env)
       IN  /\ ret' = r
           /\ disk' = disk \cup r.created
           /\ nextTmp' = IF r.created = {} THEN nextTmp ELSE nextTmp + 1
    /\ pc' = "returned"
    /\ UNCHANGED <<request, job, temp_paths, work_dir, voice_path, result,
                   video_segments, input_video, pv, response, delivered, log,
                   rmFail, arg>>

SpecFetch == InitFetch /\ [][DownloadYoutubeVideo]_vars

(***************************************************************************)
(* clean_temp_files as a function of the registry and the filesystem: it   *)
(* is run twice on the same registry.  ret keeps the filesystem before the *)
(* first run and arg the filesystem between the two runs.                  *)
(***************************************************************************)
PathSamples ==
    { mkdtemp(0), join(mkdtemp(0), "narration.mp3"),
      join(mkdtemp(0), "final_output.mp4"),
      mkdtemp(1), join(mkdtemp(1), "urlA") }

\* a file exists only inside an existing directory
Filesystems ==
    {fs \in SUBSET PathSamples :
        \A p \in fs : Len(p) = 3 => SubSeq(p, 1, 2) \in fs}

Registries == SeqsUpTo(PathSamples, MaxRegistry)

InitClean ==
    /\ request = NoRequest
    /\ pc = "clean_temp_files"
    /\ disk \in Filesystems
    /\ temp_paths \in Registries
    /\ nextTmp = 0
    /\ job = NoJob
    /\ work_dir = NoPath
    /\ voice_path = NoPath
    /\ result = <<>>
    /\ video_segments = <<>>
    /\ input_video = NoPath
    /\ pv = NoReturn
    /\ response = NoResponse
    /\ delivered = FALSE
    /\ log = <<>>
    /\ rmFail = {}
    /\ arg = None
    /\ ret = None

CleanTempFiles ==
    /\ pc = "clean_temp_files"
    /\ disk' \in clean_temp_files(temp_paths, disk, rmFail)
    /\ ret' = disk
    /\ pc' = "cleaned_once"
    /\ UNCHANGED <<request, nextTmp, job, temp_paths, work_dir, voice_path, result,
                   video_segments, input_video, pv, response, delivered, log,
                   rmFail, arg>>

CleanTempFilesAgain ==
    /\ pc = "cleaned_once"
    /\ disk' \in clean_temp_files(temp_paths, disk, rmFail)
    /\ arg' = disk
    /\ pc' = "cleaned_twice"
    /\ UNCHANGED <<request, nextTmp, job, temp_paths, work_dir, voice_path, result,
                   video_segments, input_video, pv, response, delivered, log,
                   rmFail, ret>>

NextClean == CleanTempFiles \/ CleanTempFilesAgain

SpecClean == InitClean /\ [][NextClean]_vars

(***************************************************************************)
(* Notions the properties are stated with.                                 *)
(***************************************************************************)
Calls(op) == SelectSeq(log, LAMBDA c : c.op = op)

FailedCalls == SelectSeq(log, LAMBDA c : ~c.ok)

\* the request is one that validation has to reject
Invalid(r) ==
    \/ "prompt" \notin r.keys \/ r.prompt = ""
    \/ "links" \notin r.keys \/ Len(r.links) = 0 \/ Len(r.links) > 10

\* nothing has been processed: no path, no engine call, no cleanup
Untouched ==
    /\ disk = {}
    /\ nextTmp = 0
    /\ log = <<>>
    /\ temp_paths = <<>>
    /\ pv = NoReturn

\* the scratch directory a fetched file lies in
ScratchOf(video) == SubSeq(video, 1, 2)

(***************************************************************************)
(* C1: once process_video has raised, whatever the failure point, no path  *)
(* created for the job remains on disk.                                    *)
(***************************************************************************)
C1_FullOrNothingCleanup == pv.state = "raised" => disk = {}

(***************************************************************************)
(* C2: a request with a missing or empty prompt, or with missing, no or    *)
(* more than 10 links, is rejected with nothing created, called or cleaned;*)
(* a request with a prompt and 1 to 10 links passes validation.            *)
(***************************************************************************)
C2_ValidationBeforeProcessing ==
    pc # "request" =>
        /\ Invalid(request) =>
             /\ pc = "responded"
             /\ response.kind = "error"
             /\ Untouched
        /\ (request.body = "object" /\ ~Invalid(request)) =>
             /\ job.youtube_urls = request.links
             /\ job.story_text = request.prompt
             /\ response.status # 400

C2_Witness ==
    /\ pc = "responded"
    /\ Len(request.links) = MaxVideos + 1
    /\ request.prompt # ""
    /\ response.status = 400

(***************************************************************************)
(* C3: a request rejected by validation gets a 4xx {error} response, a     *)
(* request that passes validation and fails in a processing stage or in     *)
(* delivery gets a 5xx {error} response, and a file response is given only *)
(* when nothing failed.                                                    *)
(***************************************************************************)
C3_StatusReflectsFailure ==
    (pc = "responded" /\ request.body = "object") =>
        /\ Invalid(request) =>
             /\ response.kind = "error"
             /\ response.status \in 400..499
             /\ response.error # ""
        /\ (~Invalid(request) /\ FailedCalls # <<>>) =>
             /\ response.kind = "error"
             /\ response.status \in 500..599
             /\ response.error # ""
        /\ response.kind = "file" =>
             /\ FailedCalls = <<>>
             /\ pv.state = "returned"
             /\ response.file = pv.output_path

C3_Witness ==
    /\ pc = "responded"
    /\ Calls("concat") # <<>>
    /\ ~Calls("concat")[1].ok
    /\ response.status = 500

(***************************************************************************)
(* C4: with one fetched file there is no concatenation and the file is the *)
(* video input of the mux; with several there is exactly one concatenation,*)
(* of the fetched files in the order of the URLs, and its output is the    *)
(* video input of the mux.                                                 *)
(***************************************************************************)
C4_ConcatenationInUrlOrder ==
    LET N == Len(job.youtube_urls)
        concat == Calls("concat")
    IN  /\ pc \in {"mux", "send"} =>
             /\ Len(video_segments) = N
             /\ Len(concat) = (IF N > 1 THEN 1 ELSE 0)
        /\ concat # <<>> =>
             /\ N > 1
             /\ Len(concat) = 1
             /\ Len(concat[1].arg) = N
             /\ \A i \in 1..N :
                  concat[1].arg[i] = join(mkdtemp(i), job.youtube_urls[i])
        /\ Calls("mux") # <<>> =>
             /\ Len(Calls("mux")) = 1
             /\ Calls("mux")[1].arg.video =
                  (IF N = 1 THEN join(mkdtemp(1), job.youtube_urls[1])
                   ELSE join(work_dir, "combined.mp4"))
             /\ N > 1 => concat[1].ok

C4_Witness ==
    /\ pc = "send"
    /\ job.youtube_urls = <<"urlB", "urlA", "urlB">>
    /\ Calls("concat")[1].arg =
         <<<<"tmp", 1, "urlB">>, <<"tmp", 2, "urlA">>, <<"tmp", 3, "urlB">>>>

(***************************************************************************)
(* C5: create_subtitle_filter emits one instruction per Word, in segment-  *)
(* then-word order: as many instructions as Words, the i-th one for the    *)
(* i-th Word, Words that clean to the empty text included, and none for a  *)
(* transcript without words.                                               *)
(***************************************************************************)
RECURSIVE AllWords(_)
AllWords(segments) ==
    IF segments = <<>> THEN <<>>
    ELSE (IF "words" \in DOMAIN Head(segments) THEN Head(segments).words ELSE <<>>)
         \o AllWords(Tail(segments))

RECURSIVE TotalWords(_)
TotalWords(segments) ==
    IF segments = <<>> THEN 0
    ELSE (IF "words" \in DOMAIN Head(segments) THEN Len(Head(segments).words) ELSE 0)
         + TotalWords(Tail(segments))

C5_OneOverlayPerWord ==
    pc = "returned" =>
        /\ Len(ret.filters) = TotalWords(arg)
        /\ \A i \in 1..Len(ret.filters) :
             ret.filters[i] =
                "drawtext=font='Arial':text='"
                \o Str(SelectSeq(AllWords(arg)[i].word, LAMBDA c : c \in AllowSet))
                \o "':fontsize=60:fontcolor=white:bordercolor=black:borderw=2:"
                \o "x=(w-text_w)/2:y=(h-text_h)/2:enable='between(t,"
                \o ToString(AllWords(arg)[i].start) \o ","
                \o ToString(AllWords(arg)[i].end) \o ")'"
        /\ (TotalWords(arg) = 0 <=> ret.value = "")

C5_Witness ==
    /\ pc = "returned"
    /\ Len(arg) = 2
    /\ Len(ret.filters) = 3
    /\ \E i \in 1..3 : AllWords(arg)[i].word = <<"'", ":">>

(***************************************************************************)
(* C6: clean_text is idempotent, its output has only characters of the     *)
(* allow-set, and it keeps the allowed characters of its input in their    *)
(* order: the k-th character of the output is the k-th allowed character   *)
(* of the input.                                                           *)
(***************************************************************************)
AllowedAt(x) == {i \in 1..Len(x) : x[i] \in AllowSet}

KthAllowed(x, k) ==
    CHOOSE i \in AllowedAt(x) : Cardinality({j \in AllowedAt(x) : j <= i}) = k

C6_SanitizeIdempotent ==
    pc = "clean_text" =>
        /\ \A n \in 1..Len(ret) : \A i \in 1..Len(ret[n]) : ret[n][i] \in AllowSet
        /\ Len(ret) >= 1 =>
             /\ Len(ret[1]) = Cardinality(AllowedAt(arg))
             /\ \A k \in 1..Len(ret[1]) : ret[1][k] = arg[KthAllowed(arg, k)]
        /\ Len(ret) = 2 => ret[2] = ret[1]

C6_Witness ==
    /\ pc = "clean_text"
    /\ Len(ret) = 2
    /\ arg = <<"'", "a", ":">>
    /\ ret[2] = <<"a">>

(***************************************************************************)
(* C7: when the fetch of a URL after the first fails, the job fails with   *)
(* an error, and the file and scratch directory of every URL fetched       *)
(* before it, the work directory and the narration file are gone.          *)
(***************************************************************************)
C7_EarlierFetchesRemoved ==
    (Calls("fetch") # <<>> /\ ~Calls("fetch")[Len(Calls("fetch"))].ok
        /\ Len(Calls("fetch")) > 1) =>
        /\ pv.state = "raised"
        /\ response.kind = "error"
        /\ Len(video_segments) = Len(Calls("fetch")) - 1
        /\ \A i \in 1..Len(video_segments) :
             /\ video_segments[i] = join(mkdtemp(i), job.youtube_urls[i])
             /\ video_segments[i] \notin disk
             /\ ScratchOf(video_segments[i]) \notin disk
        /\ work_dir \notin disk
        /\ voice_path \notin disk

C7_Witness ==
    /\ job.youtube_urls = <<"urlA", "urlB">>
    /\ Len(Calls("fetch")) = 2
    /\ ~Calls("fetch")[2].ok
    /\ video_segments = <<<<"tmp", 1, "urlA">>>>
    /\ pv.state = "raised"

(***************************************************************************)
(* C8: download_youtube_video never selects a stream above 720p: it takes  *)
(* a 720p progressive mp4 stream if there is one, else the highest below   *)
(* 720p, and fails, creating nothing, when there is none at or below 720p. *)
(***************************************************************************)
Eligible(streams) ==
    {s \in streams : s.progressive /\ s.ext = "mp4" /\ s.res <= 720}

C8_NeverAboveCeiling ==
    (pc = "returned" /\ arg.env.yt_ok) =>
        IF Eligible(arg.env.streams) = {}
        THEN ~ret.ok /\ ret.stream = NoStream /\ ret.created = {} /\ disk = {}
        ELSE /\ ret.stream \in Eligible(arg.env.streams)
             /\ \A s \in Eligible(arg.env.streams) : s.res <= ret.stream.res

(***************************************************************************)
(* C9: when a processing step fails, process_video has cleaned every path  *)
(* registered so far when it raises, the error it raises wraps the cause,  *)
(* and it returns no path; it returns an output path only when synthesis,  *)
(* transcription, every fetch, the concatenation (for several videos) and  *)
(* the mux have all succeeded.                                             *)
(***************************************************************************)
C9_CleanupThenWrappedError ==
    /\ FailedCalls # <<>> /\ FailedCalls[1].op # "send_file" =>
         /\ pv.state = "raised"
         /\ Len(FailedCalls) = 1
         /\ log[Len(log) - 1] = FailedCalls[1]
         /\ log[Len(log)].op = "cleanup"
         /\ log[Len(log)].arg = temp_paths
         /\ \A i \in 1..Len(temp_paths) : temp_paths[i] \notin disk
         /\ pv.error = "Video processing failed: " \o FailedCalls[1].err
         /\ FailedCalls[1].err # ""
         /\ pv.output_path = NoPath
         /\ response.kind = "error"
    /\ pv.state = "raised" => FailedCalls # <<>>
    /\ pv.state = "returned" =>
         LET N == Len(job.youtube_urls)
             okCalls(op) == SelectSeq(log, LAMBDA c : c.op = op /\ c.ok)
         IN  /\ Len(okCalls("synth")) = 1
             /\ Len(okCalls("transcribe")) = 1
             /\ Len(okCalls("fetch")) = N
             /\ Len(okCalls("concat")) = (IF N > 1 THEN 1 ELSE 0)
             /\ Len(okCalls("mux")) = 1
             /\ \A i \in 1..Len(log) : log[i].op # "send_file" => log[i].ok
             /\ pv.output_path = join(work_dir, "final_output.mp4")

C9_Witness ==
    /\ pv.state = "raised"
    /\ Calls("mux") # <<>>
    /\ Len(temp_paths) >= 6
    /\ pv.error = "Video processing failed: "
                  \o ErrFfmpeg(MuxArgv(input_video, voice_path,
                                       create_subtitle_filter(result),
                                       join(work_dir, "final_output.mp4")))

(***************************************************************************)
(* C10: on a successful job the final artifact is on disk until the HTTP   *)
(* layer has delivered its body, and is removed afterwards.                *)
(***************************************************************************)
C10_ArtifactKeptUntilDelivered ==
    response.kind = "file" =>
        IF delivered THEN response.file \notin disk ELSE response.file \in disk

(***************************************************************************)
(* C11: every path created on disk for the job is in the registry          *)
(* temp_paths, so that no call fails while a created path is missing from  *)
(* it.  A path inside a registered directory is counted as registered.     *)
(***************************************************************************)
C11_CreatedPathsRegistered ==
    \A p \in disk :
        \E i \in 1..Len(temp_paths) : temp_paths[i] = p \/ Under(p, temp_paths[i])

(***************************************************************************)
(* C12: process_video called with an empty text, no URL or more than 10    *)
(* URLs fails at once: no directory is created and no engine is called.    *)
(***************************************************************************)
JobInvalid ==
    \/ job.story_text = ""
    \/ Len(job.youtube_urls) = 0
    \/ Len(job.youtube_urls) > 10

C12_OrchestratorValidates ==
    (JobInvalid /\ pc # "process_video") =>
        /\ pv.state = "raised"
        /\ disk = {}
        /\ nextTmp = 0
        /\ \A i \in 1..Len(log) :
             log[i].op \notin {"synth", "transcribe", "fetch", "concat", "mux"}

(***************************************************************************)
(* C13: a request without a body, or whose body is not a JSON object, is a *)
(* validation failure: a 4xx {error} response and nothing processed.       *)
(***************************************************************************)
C13_BadBodyIsValidationError ==
    (pc = "responded" /\ request.body \in {"absent"} \cup NonObjectBodies) =>
        /\ response.kind = "error"
        /\ response.status \in 400..499
        /\ Untouched

(***************************************************************************)
(* C14: every job terminates, with the artifact or with an error: the wait *)
(* for an external tool is bounded, so a job that has not yet answered can *)
(* always take a further step.                                             *)
(***************************************************************************)
C14_JobTerminates == pc = "responded" \/ ENABLED NextHang

(***************************************************************************)
(* C15: the concatenation is invoked only after every URL has been fetched *)
(* successfully, and the mux only after synthesis, transcription, every    *)
(* fetch and (for several videos) the concatenation have succeeded.        *)
(***************************************************************************)
OkBefore(i, op) == SelectSeq(SubSeq(log, 1, i - 1), LAMBDA c : c.op = op /\ c.ok)

AllFetchedBefore(i) ==
    /\ Len(OkBefore(i, "fetch")) = Len(job.youtube_urls)
    /\ \A k \in 1..Len(job.youtube_urls) :
         OkBefore(i, "fetch")[k].arg = job.youtube_urls[k]

C15_CompositionAfterUpstream ==
    \A i \in 1..Len(log) :
        /\ log[i].op = "concat" => AllFetchedBefore(i)
        /\ log[i].op = "mux" =>
             /\ Len(OkBefore(i, "synth")) = 1
             /\ Len(OkBefore(i, "transcribe")) = 1
             /\ AllFetchedBefore(i)
             /\ Len(OkBefore(i, "concat")) =
                  (IF Len(job.youtube_urls) > 1 THEN 1 ELSE 0)

C15_Witness ==
    /\ Len(job.youtube_urls) = MaxVideos
    /\ Calls("concat") # <<>>
    /\ Calls("mux") # <<>>
    /\ Calls("mux")[1].ok

(***************************************************************************)
(* C16: within a job every stage is called at most once and every URL is   *)
(* fetched at most once, and a failing call is the last one: it is         *)
(* followed by the cleanup and the error, by no other stage or fetch.      *)
(***************************************************************************)
C16_NoRetryImmediateAbort ==
    /\ \A op \in {"mkdtemp", "synth", "transcribe", "concat", "mux"} :
         Len(Calls(op)) <= 1
    /\ Len(Calls("fetch")) <= Len(job.youtube_urls)
    /\ \A k \in 1..Len(Calls("fetch")) : Calls("fetch")[k].arg = job.youtube_urls[k]
    /\ \A i \in 1..Len(log) :
         (~log[i].ok /\ log[i].op # "send_file") =>
             /\ i = Len(log) - 1
             /\ log[Len(log)].op = "cleanup"
             /\ pc = "responded"
             /\ pv.state = "raised"
             /\ response.kind = "error"

C16_Witness ==
    /\ Len(job.youtube_urls) = 3
    /\ Len(Calls("fetch")) = 2
    /\ ~Calls("fetch")[2].ok
    /\ pc = "responded"
    /\ delivered

(***************************************************************************)
(* C17: when the removal of a registered path raises, clean_temp_files     *)
(* still removes every other registered path that can be removed and       *)
(* raises nothing: a failed job reports its processing error and a         *)
(* successful job its file.                                                *)
(***************************************************************************)
Removable(p) == p \notin rmFail /\ \A f \in rmFail : ~Under(f, p)

C17_CleanupBestEffort ==
    /\ Len(Calls("cleanup")) <= 1
    /\ Calls("cleanup") # <<>> =>
         LET reg == Calls("cleanup")[1].arg
         IN  /\ \A i \in 1..Len(reg) : Removable(reg[i]) => reg[i] \notin disk
             /\ pv.state = "raised" =>
                  /\ pv.error = "Video processing failed: " \o FailedCalls[1].err
                  /\ response = [kind |-> "error", status |-> 500,
                                 error |-> pv.error, file |-> NoPath]
             /\ (pv.state = "returned" /\ Calls("send_file")[1].ok) =>
                  response = [kind |-> "file", status |-> 200, error |-> "",
                              file |-> pv.output_path]
             /\ (pv.state = "returned" /\ ~Calls("send_file")[1].ok) =>
                  response = [kind |-> "error", status |-> 500,
                              error |-> ErrSend, file |-> NoPath]

C17_Witness ==
    /\ rmFail = {<<"tmp", 0>>}
    /\ pv.state = "raised"
    /\ Len(Calls("fetch")) = 2
    /\ <<"tmp", 0>> \in disk
    /\ <<"tmp", 1>> \notin disk
    /\ <<"tmp", 0, "narration.mp3">> \notin disk

(***************************************************************************)
(* C18: once process_video has returned, generate_video has run no cleanup *)
(* before send_file, and after send_file (returned or raised) it has run   *)
(* exactly one cleanup, of the whole registry, which leaves nothing of the *)
(* job on disk.                                                            *)
(***************************************************************************)
C18_CleanupOnceAfterSuccess ==
    pv.state = "returned" =>
        /\ pc = "send" => Calls("cleanup") = <<>> /\ Calls("send_file") = <<>>
        /\ pc = "responded" =>
             /\ Len(Calls("send_file")) = 1
             /\ Len(Calls("cleanup")) = 1
             /\ log[Len(log) - 1].op = "send_file"
             /\ log[Len(log)].op = "cleanup"
             /\ log[Len(log)].arg = temp_paths
             /\ disk = {}

C18_Witness ==
    /\ pv.state = "returned"
    /\ pc = "responded"
    /\ ~Calls("send_file")[1].ok
    /\ Len(job.youtube_urls) = 2
    /\ Len(temp_paths) = 8
    /\ disk = {}

(***************************************************************************)
(* C19: whatever the order of the registry, with a directory listed before *)
(* the files inside it or a path listed twice, one run of clean_temp_files *)
(* removes exactly the listed paths and the contents of listed             *)
(* directories, a listed path that does not exist is passed over, nothing  *)
(* is raised, and a second run leaves the filesystem as the first left it. *)
(***************************************************************************)
Listed(p) == \E i \in 1..Len(temp_paths) : temp_paths[i] = p

UnderListed(p) == \E i \in 1..Len(temp_paths) : Under(p, temp_paths[i])

C19_CleanupIdempotent ==
    /\ pc \in {"cleaned_once", "cleaned_twice"} =>
         /\ \A i \in 1..Len(temp_paths) : temp_paths[i] \notin disk
         /\ disk = {p \in ret : ~Listed(p) /\ ~UnderListed(p)}
         /\ ~clean_temp_files_raises(temp_paths, ret, rmFail)
    /\ pc = "cleaned_twice" =>
         /\ disk = arg
         /\ ~clean_temp_files_raises(temp_paths, arg, rmFail)

C19_Witness ==
    /\ pc = "cleaned_twice"
    /\ temp_paths = << mkdtemp(0), join(mkdtemp(0), "narration.mp3"), mkdtemp(0) >>
    /\ ret = {mkdtemp(0), join(mkdtemp(0), "narration.mp3"), mkdtemp(1)}
    /\ disk = {mkdtemp(1)}

====
